---- MODULE Spec2Model ----
(***************************************************************************)
(* Model of src/app.py, the Spark Search Platform (class SparkSearchApp).  *)
(*                                                                         *)
(* One behaviour of the model is one browser session.  A script run        *)
(* (SparkSearchApp.run) is split into the steps the code takes in order:   *)
(* run -> render_login_page, or run -> render_sidebar ->                   *)
(* create_search_filters -> the Search Data button -> the results display. *)
(* The widget values of a run are the user's inputs and are drawn from     *)
(* small sets; the outcomes of the file system and of the Database helper  *)
(* (which is not part of src/) are drawn nondeterministically.             *)
(***************************************************************************)
EXTENDS Integers, Sequences, FiniteSets, TLC

\* Number of transient files that may exist on disk at once (caps the set
\* of temporary file names; the code itself has no such limit).
MaxTempFiles == 2

----------------------------------------------------------------------------
(* Numbers.  A pandas/numpy scalar is either NaN or a value; every         *)
(* comparison with NaN is false.                                           *)

NaN == [nan |-> TRUE, v |-> 0]
Num(n) == [nan |-> FALSE, v |-> n]

NumEq(a, b) == ~a.nan /\ ~b.nan /\ a.v = b.v
NumLt(a, b) == ~a.nan /\ ~b.nan /\ a.v < b.v
NumAdd(a, k) == IF a.nan THEN NaN ELSE Num(a.v + k)
NumSub(a, b) == IF a.nan \/ b.nan THEN NaN ELSE Num(a.v - b.v)

----------------------------------------------------------------------------
(* The files a user can offer and the tables their parsing yields.         *)

TableIds == {"people", "flat", "blank", "empty"}

\* df.columns.tolist() of each table
TableColumns(t) ==
    CASE t = "people" -> <<"name", "salary">>
      [] t = "flat"   -> <<"salary">>
      [] t = "blank"  -> <<"name", "salary">>
      [] OTHER        -> <<>>

\* df[column].dtype
ColumnDtype(t, c) ==
    CASE c = "name"                   -> "object"
      [] c = "salary" /\ t = "blank"  -> "float64"
      [] OTHER                        -> "int64"

\* df[column] of a numeric column, as the sequence of its cells
ColumnData(t, c) ==
    CASE t = "people" /\ c = "salary" -> <<Num(50000), Num(150000)>>
      [] t = "flat"   /\ c = "salary" -> <<Num(3000), Num(3000)>>
      [] t = "blank"  /\ c = "salary" -> <<NaN, NaN>>
      [] OTHER                        -> <<>>

SeqToSet(s) == {s[i] : i \in 1..Len(s)}

NoFile == [ext |-> "", content |-> "", table |-> "None"]

\* An offered file: the extension of its name, what its bytes are, and the
\* table a parser that understands the bytes reads from them.  A CSV text
\* always has a header, so only a spreadsheet can hold the table without
\* columns.  A file's name need not match its bytes.
Exts == {"csv", "xlsx", "xls", "txt"}
File(e, c, t) == [ext |-> e, content |-> c, table |-> t]
Files ==
    {File("csv", "csv", t) : t \in {"people", "flat", "blank"}}
    \cup {File("xlsx", "excel", t) : t \in {"people", "empty"}}
    \cup {File(e, "excel", "people") : e \in {"xls", "csv", "txt"}}
    \cup {File(e, "csv", "people") : e \in {"xlsx", "txt"}}
    \cup {File(e, "bad", "None") : e \in {"csv", "xlsx", "txt"}}

Msg(kind, col) == [kind |-> kind, col |-> col]

----------------------------------------------------------------------------
VARIABLES
    \* st.session_state
    logged_in,          \* FALSE also stands for "the key is absent"
    search_performed,
    columns,
    df,                 \* "None" or the id of the table held
    results,            \* <<>> while the key is absent, else <<result>>
    \* the world outside the session
    db,                 \* what the Database holds: the last table ingested
    tempfiles,          \* the transient files that exist on disk
    \* the script run in progress
    pc,
    login,              \* the login form's widget values of this run
    upload,             \* what render_sidebar did in this run
    widgets,            \* the filter form's widget values of this run
    filters,            \* the mapping create_search_filters returned
    sliders,            \* the range controls rendered in this run
    clicked,            \* whether Search Data was clicked in this run
    searched,           \* <<>> or <<the filters passed to search_resumes>>
    shown,              \* <<>> or <<the result the results display showed>>
    messages,           \* st.success / st.error / st.warning of this run
    logged              \* self.logger.error of this run

session == <<logged_in, search_performed, columns, df, results>>
world == <<db, tempfiles>>
thisrun == <<login, upload, widgets, filters, sliders, clicked, searched,
             shown, messages, logged>>
vars == <<session, world, pc, thisrun>>

NoLogin == [username |-> "", password |-> "", login_button |-> FALSE]
NoUpload == [ext |-> "", table |-> "None", status |-> "none", created |-> 0,
             inserted |-> FALSE, unlink_raised |-> FALSE, escaped |-> FALSE]

\* initialize_session_state, first run of a session
Init ==
    /\ logged_in = FALSE
    /\ search_performed = FALSE
    /\ columns = <<>>
    /\ df = "None"
    /\ results = <<>>
    /\ db = "None"
    /\ tempfiles = {}
    /\ pc = "idle"
    /\ login = NoLogin
    /\ upload = NoUpload
    /\ widgets = <<>>
    /\ filters = <<>>
    /\ sliders = <<>>
    /\ clicked = FALSE
    /\ searched = <<>>
    /\ shown = <<>>
    /\ messages = {}
    /\ logged = {}

\* SparkSearchApp.run: a new script run starts with nothing rendered and
\* branches on the login flag.
run ==
    /\ pc = "idle"
    /\ pc' = IF ~logged_in THEN "login" ELSE "sidebar"
    /\ login' = NoLogin
    /\ upload' = NoUpload
    /\ widgets' = <<>>
    /\ filters' = <<>>
    /\ sliders' = <<>>
    /\ clicked' = FALSE
    /\ searched' = <<>>
    /\ shown' = <<>>
    /\ messages' = {}
    /\ logged' = {}
    /\ UNCHANGED <<session, world>>

----------------------------------------------------------------------------
(* Login                                                                   *)

Usernames == {"Admin", "admin", ""}
Passwords == {"Admin@123", "Admin", ""}

\* Variant: a login check that compares the username only
CredentialsOk_username_only(username, password) == username = "Admin"

\* the condition of line 174
CredentialsOk(username, password) ==
    username = "Admin" /\ password = "Admin@123"

\* render_login_page; st.rerun() ends the run, as does the end of the page
render_login_page ==
    /\ pc = "login"
    /\ \E u \in Usernames, p \in Passwords, b \in BOOLEAN :
        /\ login' = [username |-> u, password |-> p, login_button |-> b]
        /\ IF b
           THEN IF CredentialsOk(u, p)
                THEN /\ logged_in' = TRUE
                     /\ messages' = messages \cup {Msg("login_success", "")}
                ELSE /\ logged_in' = logged_in
                     /\ messages' = messages \cup {Msg("login_error", "")}
           ELSE UNCHANGED <<logged_in, messages>>
    /\ pc' = "idle"
    /\ UNCHANGED <<search_performed, columns, df, results, world, upload,
                   widgets, filters, sliders, clicked, searched, shown,
                   logged>>

----------------------------------------------------------------------------
(* Upload                                                                  *)

\* type=["csv", "xlsx", "xls"] of st.file_uploader
AllowedTypes == {"csv", "xlsx", "xls"}

\* Variant: an uploader without the type list, which accepts every file
file_uploader_any_type(offered) == offered

\* st.file_uploader: the widget refuses a file whose extension is not in
\* its type list and then yields no file.
file_uploader(offered) ==
    IF offered.ext \in AllowedTypes THEN offered ELSE NoFile

\* pd.read_csv / pd.read_excel read the bytes, whatever the file is called:
\* each either yields the table or raises.
read_csv(f) ==
    IF f.content = "csv" THEN [raised |-> FALSE, table |-> f.table]
    ELSE [raised |-> TRUE, table |-> "None"]

read_excel(f) ==
    IF f.content = "excel" THEN [raised |-> FALSE, table |-> f.table]
    ELSE [raised |-> TRUE, table |-> "None"]

\* lines 47-50: the parser is chosen by the name's suffix
parse_upload(f) ==
    IF f.ext = "csv" THEN read_csv(f) ELSE read_excel(f)

\* What the file system and the Database do during one upload.
Envs ==
    [create : {"ok", "raise"},      \* tempfile.NamedTemporaryFile
     write  : {"ok", "raise"},      \* temp_file.write
     insert : {"success", "failure", "raise"},   \* db.insert_data
     unlink : {"ok", "raise"}]      \* os.unlink

\* The outcome of an upload: the new values of what it can change, what it
\* showed and logged, and whether an exception is still propagating.
UploadStart(f) ==
    [df |-> df, columns |-> columns, db |-> db, tempfiles |-> tempfiles,
     messages |-> {}, logged |-> {},
     raised |-> FALSE,
     info |-> [ext |-> f.ext, table |-> "None", status |-> "none",
               created |-> 0,
               inserted |-> FALSE, unlink_raised |-> FALSE,
               escaped |-> FALSE]]

\* lines 59-70: insert_data inside try/finally; the finally clause deletes
\* the transient file and only logs when the deletion raises.
ingest_and_cleanup(o, table, env) ==
    LET path == o.info.created
        called == [o EXCEPT !.info.inserted = TRUE,
                            !.info.status = "insert_" \o env.insert]
        afterInsert ==
            CASE env.insert = "success" ->
                   [called EXCEPT !.db = table,
                       !.messages = @ \cup {Msg("insert_success", "")}]
              [] env.insert = "failure" ->
                   [called EXCEPT
                       !.messages = @ \cup {Msg("insert_failure", "")}]
              [] OTHER -> [called EXCEPT !.raised = TRUE]
    IN  IF env.unlink = "ok"
        THEN [afterInsert EXCEPT !.tempfiles = @ \ {path}]
        ELSE [afterInsert EXCEPT !.logged = @ \cup {"cleanup"},
                                 !.info.unlink_raised = TRUE]

\* tempfile.NamedTemporaryFile picks a name no existing file has
fresh_name(existing) ==
    CHOOSE n \in 1..(Cardinality(existing) + 1) :
        n \notin existing /\ \A m \in 1..(n - 1) : m \in existing

\* lines 55-57: the transient file is created with delete=False, so leaving
\* the with block closes it and keeps it; temp_path is bound only after the
\* write.
write_temp_file(o, env) ==
    IF env.create = "raise"
    THEN [o EXCEPT !.raised = TRUE, !.info.status = "create_raised"]
    ELSE LET path == fresh_name(o.tempfiles)
             made == [o EXCEPT !.tempfiles = @ \cup {path},
                               !.info.created = path]
         IN  IF env.write = "raise"
             THEN [made EXCEPT !.raised = TRUE,
                               !.info.status = "write_raised"]
             ELSE made

\* Variant: the body with line 53 left out, so that columns keeps the
\* previous table's list
upload_body_stale_columns(f, env) ==
    LET o == UploadStart(f)
        p == parse_upload(f)
    IN  IF p.raised
        THEN [o EXCEPT !.raised = TRUE, !.info.status = "parse_raised"]
        ELSE LET set == [o EXCEPT !.df = p.table, !.info.table = p.table]
                 tmp == write_temp_file(set, env)
             IN  IF tmp.raised THEN tmp
                 ELSE ingest_and_cleanup(tmp, p.table, env)

\* lines 47-70, the body of the outer try
upload_body(f, env) ==
    LET o == UploadStart(f)
        p == parse_upload(f)
    IN  IF p.raised
        THEN [o EXCEPT !.raised = TRUE, !.info.status = "parse_raised"]
        ELSE LET set == [o EXCEPT !.df = p.table,
                                  !.columns = TableColumns(p.table),
                                  !.info.table = p.table]
                 tmp == write_temp_file(set, env)
             IN  IF tmp.raised THEN tmp
                 ELSE ingest_and_cleanup(tmp, p.table, env)

\* lines 72-74: except Exception shows and logs the error
upload_except(o) ==
    IF o.raised
    THEN [o EXCEPT !.raised = FALSE,
                   !.messages = @ \cup {Msg("processing_error", "")},
                   !.logged = @ \cup {"processing"}]
    ELSE o

\* Variant: handle_file_upload without its except clause
handle_file_upload_uncaught(f, env) == upload_body(f, env)

\* handle_file_upload
handle_file_upload(f, env) == upload_except(upload_body(f, env))

\* render_sidebar: the uploader, then handle_file_upload when it holds a
\* file.  An exception leaving handle_file_upload would end the run.
render_sidebar ==
    /\ pc = "sidebar"
    /\ \E offered \in Files \cup {NoFile}, env \in Envs :
        LET uploaded_file == file_uploader(offered)
            o == IF uploaded_file # NoFile
                 THEN handle_file_upload(uploaded_file, env)
                 ELSE UploadStart(offered)
            rejected == offered # NoFile /\ uploaded_file = NoFile
        IN  /\ Cardinality(o.tempfiles) <= MaxTempFiles
            /\ df' = o.df
            /\ columns' = o.columns
            /\ db' = o.db
            /\ tempfiles' = o.tempfiles
            /\ messages' = messages \cup o.messages
                 \cup (IF rejected THEN {Msg("type_not_allowed", "")} ELSE {})
            /\ logged' = logged \cup o.logged
            /\ upload' = [o.info EXCEPT
                            !.ext = offered.ext,
                            !.status = IF rejected THEN "unsupported_format"
                                      ELSE @,
                            !.escaped = o.raised]
            /\ pc' = IF o.raised THEN "idle" ELSE "filters"
    /\ UNCHANGED <<logged_in, search_performed, results, login, widgets,
                   filters, sliders, clicked, searched, shown>>

----------------------------------------------------------------------------
(* Filter building                                                         *)

\* the margin of line 138 and the step floor and divisor of line 142
Margin == 1000
MinStep == 1000
StepDivisor == 100

Present(cells) == {x \in SeqToSet(cells) : ~x.nan}

\* Series.min() / Series.max(): missing cells are skipped, and the result
\* is NaN when no cell is left.
series_min(cells) ==
    IF Present(cells) = {} THEN NaN
    ELSE CHOOSE x \in Present(cells) : \A y \in Present(cells) : x.v <= y.v

series_max(cells) ==
    IF Present(cells) = {} THEN NaN
    ELSE CHOOSE x \in Present(cells) : \A y \in Present(cells) : x.v >= y.v

\* line 132
is_numeric(dtype) == dtype \in {"float64", "int64"}

\* line 142, max(value_range / 100.0, 1000.0): Python's max keeps its first
\* argument unless a later one compares greater, so a NaN range stays.  The
\* tables of the model keep value_range a multiple of the divisor.
slider_step(value_range) ==
    IF value_range.nan THEN NaN
    ELSE IF MinStep * StepDivisor > value_range.v THEN Num(MinStep)
    ELSE Num(value_range.v \div StepDivisor)

\* lines 133-149: the bounds and the default value handed to st.slider.
\* float() is exact on the values of the model (all below 2^53).
range_control(cells) ==
    LET min_val == series_min(cells)
        max_0 == series_max(cells)
        max_val == IF NumEq(min_val, max_0) THEN NumAdd(min_val, Margin)
                   ELSE max_0
        value_range == NumSub(max_val, min_val)
    IN  [min_value |-> min_val, max_value |-> max_val,
         value |-> <<min_val, max_val>>,
         step |-> slider_step(value_range)]

\* What the user does with one selected column: the radio choice, the text
\* typed, and where the two slider handles are left ("min"/"max" of the
\* control; <<"min", "max">> is the default value).
TextValues == {"", "A"}
Picks == {<<"min", "max">>, <<"min", "min">>}
ColumnInputs ==
    {[filter_type |-> "Text Search", text_value |-> t,
      pick |-> <<"min", "max">>] : t \in TextValues}
    \cup {[filter_type |-> "Range Search", text_value |-> "", pick |-> k] :
            k \in Picks}

\* st.slider returns the pair of handle positions
slider_value(ctl, pick) ==
    <<IF pick[1] = "min" THEN ctl.min_value ELSE ctl.max_value,
      IF pick[2] = "min" THEN ctl.min_value ELSE ctl.max_value>>

\* Variant: no dtype test before the range control
range_applies_always(c) == TRUE

\* line 132 for one selected column under Range Search
range_applies(c) == is_numeric(ColumnDtype(df, c))

\* The selected columns that get an entry in filters (lines 124-158)
filter_included(w, c) ==
    IF w[c].filter_type = "Text Search"
    THEN w[c].text_value # ""
    ELSE range_applies(c)

\* filters[column] (lines 127 and 156-158)
filter_entry(w, c) ==
    IF w[c].filter_type = "Text Search"
    THEN [kind |-> "text", text |-> w[c].text_value, range |-> <<NaN, NaN>>]
    ELSE [kind |-> "range", text |-> "",
          range |-> slider_value(range_control(ColumnData(df, c)),
                                 w[c].pick)]

\* The loop of lines 116-160 over the selected columns w: the mapping
\* built, the range controls rendered and the warnings shown.
build_filters(w) ==
    LET sel == DOMAIN w
        ranged == {c \in sel : w[c].filter_type = "Range Search"}
    IN  [filters |-> [c \in {x \in sel : filter_included(w, x)} |->
                        filter_entry(w, c)],
         sliders |-> [c \in {x \in ranged : range_applies(x)} |->
                        range_control(ColumnData(df, c))],
         messages |-> {Msg("not_numeric", c) :
                        c \in {x \in ranged : ~range_applies(x)}}]

\* create_search_filters, for the widget values w of the selected columns
create_search_filters(w) ==
    IF columns = <<>> \/ df = "None"
    THEN [filters |-> <<>>, sliders |-> <<>>,
          messages |-> {Msg("upload_first", "")}]
    ELSE IF DOMAIN w = {}
    THEN [filters |-> <<>>, sliders |-> <<>>,
          messages |-> {Msg("select_column", "")}]
    ELSE build_filters(w)

\* The widget values a user can leave in the filter form: a choice for each
\* column selected in the multiselect, whose options are the session's
\* columns.  The form is not rendered before a file was uploaded.
FormInputs ==
    IF columns = <<>> \/ df = "None" THEN {<<>>}
    ELSE UNION {[sel -> ColumnInputs] : sel \in SUBSET SeqToSet(columns)}

filter_form ==
    /\ pc = "filters"
    /\ \E w \in FormInputs :
        LET r == create_search_filters(w)
        IN  /\ widgets' = w
            /\ filters' = r.filters
            /\ sliders' = r.sliders
            /\ messages' = messages \cup r.messages
    /\ pc' = "button"
    /\ UNCHANGED <<session, world, login, upload, clicked, searched, shown,
                   logged>>

----------------------------------------------------------------------------
(* Search and display                                                      *)

\* Database.search_resumes: the rows of what the Database holds that
\* satisfy the filters, a function of the two.
search_resumes(f) == [filters |-> f, db |-> db]

\* Variant: the click handler without the `if filters` guard
on_search_click_unguarded(f) ==
    [search_performed |-> TRUE, results |-> <<search_resumes(f)>>,
     searched |-> <<f>>, messages |-> {}]

\* Variant: the click handler with line 191 left out
on_search_click_no_results(f) ==
    IF DOMAIN f # {}
    THEN [search_performed |-> TRUE, results |-> results,
          searched |-> <<f>>, messages |-> {}]
    ELSE [search_performed |-> search_performed, results |-> results,
          searched |-> <<>>, messages |-> {Msg("no_criteria", "")}]

\* Variant: the click handler with line 190 moved out of the guard
on_search_click_flag_always(f) ==
    IF DOMAIN f # {}
    THEN [search_performed |-> TRUE, results |-> <<search_resumes(f)>>,
          searched |-> <<f>>, messages |-> {}]
    ELSE [search_performed |-> TRUE, results |-> results,
          searched |-> <<>>, messages |-> {Msg("no_criteria", "")}]

\* lines 188-193, the body of `if st.button("Search Data")`: the new
\* session values, the call made and the warning shown.
on_search_click(f) ==
    IF DOMAIN f # {}
    THEN [search_performed |-> TRUE, results |-> <<search_resumes(f)>>,
          searched |-> <<f>>, messages |-> {}]
    ELSE [search_performed |-> search_performed, results |-> results,
          searched |-> <<>>, messages |-> {Msg("no_criteria", "")}]

\* The Search Data button.  search_resumes can raise, which ends the run
\* before anything is assigned.
search_button ==
    /\ pc = "button"
    /\ \E click \in BOOLEAN, outcome \in {"ok", "raise"} :
        /\ clicked' = click
        /\ IF ~click
           THEN /\ pc' = "display"
                /\ UNCHANGED <<search_performed, results, searched, messages>>
           ELSE LET r == on_search_click(filters)
                IN  IF r.searched # <<>> /\ outcome = "raise"
                    THEN /\ pc' = "idle"
                         /\ searched' = r.searched
                         /\ messages' = messages \cup {Msg("exception", "")}
                         /\ UNCHANGED <<search_performed, results>>
                    ELSE /\ pc' = "display"
                         /\ search_performed' = r.search_performed
                         /\ results' = r.results
                         /\ searched' = r.searched
                         /\ messages' = messages \cup r.messages
    /\ UNCHANGED <<logged_in, columns, df, world, login, upload, widgets,
                   filters, sliders, shown, logged>>

\* lines 195-200: what the results display reads from the session
displayed_results == IF search_performed THEN results ELSE <<>>

show_results ==
    /\ pc = "display"
    /\ shown' = displayed_results
    /\ pc' = "idle"
    /\ UNCHANGED <<session, world, login, upload, widgets, filters, sliders,
                   clicked, searched, messages, logged>>

----------------------------------------------------------------------------
Next ==
    \/ run
    \/ render_login_page
    \/ render_sidebar
    \/ filter_form
    \/ search_button
    \/ show_results

Spec == Init /\ [][Next]_vars

----------------------------------------------------------------------------
(* Properties                                                              *)

SidebarStep == pc = "sidebar" /\ pc' # "sidebar"
ButtonStep == pc = "button" /\ pc' # "button"
ErrorShown == {Msg("processing_error", ""), Msg("insert_failure", "")}

\* C1: whenever handle_file_upload created a transient file, the file no
\* longer exists once the call has returned, whether insert_data returned
\* success, returned failure or raised, or the write into the file raised
\* (the paths on which the deletion itself did not fail).
C1_TransientFileReleased ==
    (upload.created # 0 /\ ~upload.unlink_raised)
        => upload.created \notin tempfiles

\* C2: a file offered with an extension other than csv, xlsx or xls is
\* refused as an unsupported format: insert_data is not called for it, no
\* transient file is created for it, and the refusal is shown.
C2_UnsupportedExtensionRefused ==
    (upload.ext \notin {"", "csv", "xlsx", "xls"})
        => /\ upload.status = "unsupported_format"
           /\ ~upload.inserted
           /\ upload.created = 0
           /\ Msg("type_not_allowed", "") \in messages

C2_Witness ==
    /\ pc = "filters"
    /\ upload.ext = "txt"
    /\ upload.status = "unsupported_format"

\* C3: search_resumes is only ever called with the non-empty mapping that
\* create_search_filters built; a click on Search Data with an empty
\* mapping calls nothing, shows the no-criteria warning and leaves
\* search_performed and results as they were.
C3_NoSearchWithoutCriteria ==
    [][ButtonStep =>
          /\ searched' # <<>> =>
                (DOMAIN searched'[1] # {} /\ searched'[1] = filters)
          /\ (clicked' /\ DOMAIN filters = {}) =>
                /\ searched' = <<>>
                /\ Msg("no_criteria", "") \in messages'
                /\ search_performed' = search_performed
                /\ results' = results]_vars

C3_Witness ==
    /\ pc = "display"
    /\ clicked
    /\ DOMAIN widgets # {}
    /\ DOMAIN filters = {}
    /\ searched = <<>>
    /\ Msg("no_criteria", "") \in messages

\* C4: no error of an upload leaves handle_file_upload: whether the parser,
\* the creation of or the write into the transient file or insert_data
\* raises, insert_data reports failure, or the deletion raises, the call
\* returns, an error message is shown (the failed deletion is only logged)
\* and the run goes on to build the filters.
C4_UploadErrorsContained ==
    [][SidebarStep =>
          /\ pc' = "filters"
          /\ ~upload'.escaped
          /\ upload'.status \in {"parse_raised", "create_raised",
                                 "write_raised", "insert_raise"}
                => Msg("processing_error", "") \in messages'
          /\ upload'.status = "insert_failure"
                => Msg("insert_failure", "") \in messages'
          /\ upload'.unlink_raised => "cleanup" \in logged'
          /\ (upload'.unlink_raised /\ upload'.status = "insert_success")
                => messages' \cap ErrorShown = {}]_vars

C4_Witness ==
    /\ pc = "filters"
    /\ upload.status = "insert_raise"
    /\ upload.unlink_raised
    /\ Msg("processing_error", "") \in messages
    /\ "cleanup" \in logged

\* C5: the result a run displays is the result of a search_resumes call
\* made in that same run with that run's filters; no result of an earlier
\* run is shown.
C5_ResultsFreshPerRun ==
    shown # <<>> => (searched # <<>> /\ shown[1].filters = searched[1])

\* C5 as amended: the result a run displays is the one held in the session:
\* the result of this run's search_resumes call when the run made one, and
\* otherwise the result the last successful search of an earlier run left
\* there.
C5_ResultsHeldInSession ==
    /\ shown # <<>> => (search_performed /\ shown = results)
    /\ (pc = "idle" /\ search_performed /\ ~upload.escaped
        /\ Msg("exception", "") \notin messages)
          => shown = results
    /\ (pc \in {"display", "idle"} /\ searched # <<>>
        /\ Msg("exception", "") \notin messages)
          => results = <<[filters |-> searched[1], db |-> db]>>

C5_Witness ==
    /\ pc = "idle"
    /\ shown # <<>>
    /\ searched = <<>>
    /\ upload.status = "insert_success"
    /\ shown[1].db # db

\* C6: the dashboard steps run only while logged_in is true; logged_in
\* becomes true only by a Login click with username "Admin" and password
\* "Admin@123", any other clicked pair leaves it unset and shows an error;
\* and once true it is never reset.
C6_LoginGate ==
    [][/\ logged_in => logged_in'
       /\ (~logged_in /\ logged_in') =>
             /\ pc = "login"
             /\ login'.login_button
             /\ login'.username = "Admin"
             /\ login'.password = "Admin@123"
       /\ (pc = "login" /\ login'.login_button
           /\ ~(login'.username = "Admin" /\ login'.password = "Admin@123"))
             => (~logged_in' /\ Msg("login_error", "") \in messages')
       /\ pc' \in {"sidebar", "filters", "button", "display"}
             => logged_in']_vars

C6_Witness ==
    /\ logged_in
    /\ pc = "display"
    /\ searched # <<>>

\* C7: a column selected with Range Search that is not numeric gets a
\* warning and no entry in the mapping, create_search_filters still
\* returns, every other selected column keeps its filter, and a search
\* clicked then is made with exactly those filters.
C7_NonNumericRangeSkipped ==
    (pc \in {"button", "display"} /\ DOMAIN widgets # {}) =>
        /\ DOMAIN filters \subseteq DOMAIN widgets
        /\ \A c \in DOMAIN widgets :
            LET numeric == ColumnDtype(df, c) \in {"float64", "int64"}
            IN  /\ (widgets[c].filter_type = "Range Search" /\ ~numeric)
                      => /\ c \notin DOMAIN filters
                         /\ Msg("not_numeric", c) \in messages
                /\ (widgets[c].filter_type = "Range Search" /\ numeric)
                      => /\ c \in DOMAIN filters
                         /\ filters[c].kind = "range"
                /\ (widgets[c].filter_type = "Text Search"
                    /\ widgets[c].text_value # "")
                      => /\ c \in DOMAIN filters
                         /\ filters[c].kind = "text"
                         /\ filters[c].text = widgets[c].text_value
        /\ (pc = "display" /\ clicked /\ DOMAIN filters # {})
              => searched = <<filters>>

C7_Witness ==
    /\ pc = "display"
    /\ DOMAIN widgets = {"name", "salary"}
    /\ widgets["name"].filter_type = "Range Search"
    /\ widgets["salary"].filter_type = "Range Search"
    /\ DOMAIN filters = {"salary"}
    /\ Msg("not_numeric", "name") \in messages
    /\ searched = <<filters>>

\* C8: every range control is bounded by the column's observed minimum and
\* maximum and starts at that pair, with the maximum replaced by the
\* minimum + 1000 when the two are equal; so its upper bound is strictly
\* greater than its lower bound.
C8_RangeBounds ==
    \A c \in DOMAIN sliders :
        LET lo == series_min(ColumnData(df, c))
            hi == series_max(ColumnData(df, c))
        IN  /\ sliders[c].min_value = lo
            /\ sliders[c].max_value =
                  (IF NumEq(lo, hi) THEN NumAdd(lo, 1000) ELSE hi)
            /\ sliders[c].value =
                  <<sliders[c].min_value, sliders[c].max_value>>
            /\ NumLt(sliders[c].min_value, sliders[c].max_value)

\* C9: search_performed is true only while results holds the result of a
\* search_resumes call; it becomes true only together with results, in a
\* search with a non-empty mapping; and it never becomes false again.
C9_SearchPerformedHasResults ==
    [][/\ search_performed' => results' # <<>>
       /\ search_performed => search_performed'
       /\ (~search_performed /\ search_performed') =>
             /\ pc = "button"
             /\ DOMAIN filters # {}
             /\ searched' = <<filters>>
             /\ results' = <<[filters |-> filters, db |-> db]>>
       /\ results' # results =>
             (search_performed' /\ searched' = <<filters>>)]_vars

C9_Witness ==
    /\ search_performed
    /\ results # <<>>
    /\ shown = results
    /\ pc = "idle"

\* C10: columns is the column list of df and is empty exactly when df is
\* None.
C10_ColumnsEmptyIffNoTable ==
    /\ columns = TableColumns(df)
    /\ columns = <<>> <=> df = "None"

\* C10 as amended: columns is the column list of df, and is empty when df
\* is None (a spreadsheet without columns leaves it empty as well); an
\* upload whose parsing fails changes neither, and an upload whose parsing
\* succeeds replaces both with the file's table and columns, also when the
\* transient file cannot be written or insert_data fails or raises.
C10_ColumnsFollowTable ==
    [][/\ columns' = TableColumns(df')
       /\ df' = "None" => columns' = <<>>
       /\ (SidebarStep /\ upload'.status \in
              {"none", "unsupported_format", "parse_raised"})
             => (df' = df /\ columns' = columns)
       /\ (SidebarStep /\ upload'.status \in
              {"create_raised", "write_raised", "insert_success",
               "insert_failure", "insert_raise"})
             => (df' = upload'.table /\ columns' = TableColumns(upload'.table))
       /\ ~SidebarStep => (df' = df /\ columns' = columns)]_vars

C10_Witness ==
    /\ pc = "filters"
    /\ upload.status = "insert_raise"
    /\ df = "flat"
    /\ columns = <<"salary">>
    /\ db # "flat"

====
